---- MODULE Spec2Model ----
(***************************************************************************)
(* Model of models_logging/models.py: the Changes (change entry) and       *)
(* Revision tables, the live store of the tracked records, the revert      *)
(* operations Changes.revert and Revision.revert, the snapshot patches     *)
(* set_attr and del_attr, and the history query get_changes_by_obj.        *)
(***************************************************************************)
EXTENDS Integers, Sequences, FiniteSets, TLC

\* ------------------------------------------------------------------ bounds
MaxPK == 1          \* primary keys 1..MaxPK of every tracked model
MaxVal == 1         \* field values 0..MaxVal
MaxEntries == 3     \* change entries get identifiers 1..MaxEntries
MaxRev == 1         \* revisions 1..MaxRev
MaxPatches == 2     \* set_attr / del_attr calls in one behaviour
MaxPatchEntries == 2 \* change entries in a behaviour with patches

\* ------------------------------------------------------------------ domains
ContentTypes == {1, 2}                  \* two tracked models
PKs == 1..MaxPK
Keys == ContentTypes \X PKs             \* (content type, object id)
FieldNames == {"a", "model"}            \* the fields of a tracked model; one is
                                        \* named like a key of the snapshot
Values == 0..MaxVal
Records == [FieldNames -> Values]       \* field values of one live record
Revisions == 1..MaxRev
NoRevision == 0                         \* revision = NULL
NullData == <<>>                        \* serialized_data = NULL

\* what an injected persistence failure hits: nothing, or the write of the
\* new change entry by create_changes
DbFailures == {"none", "log"}

VARIABLES
    live,          \* the tracked tables: present key -> field values
    changes,       \* the Changes table: a set of change entries
    nextId,        \* next identifier of the Changes table
    op,            \* the last call: [name, arg, key]
    err,           \* its outcome: "ok", "running" or the exception raised
    pending,       \* Revision.revert: identifiers the loop has still to visit
    trace,         \* Revision.revert: <<[id, res]>> of the entries visited
    startLive,     \* Revision.revert: the live store when the call started
    startChanges,  \* Revision.revert: the Changes table when the call started
    patches,       \* number of set_attr / del_attr calls so far
    links,         \* relation -> set of <<related pk, pk of the record it points at>>
    result         \* get_changes_by_obj: [rels, ids], the relations asked for
                   \* and the identifiers returned, in order

vars == <<live, changes, nextId, op, err, pending, trace, startLive, startChanges,
          patches, links, result>>

\* ------------------------------------------------------------------ store
\* the database state a transaction works on
DB == [live |-> live, changes |-> changes, nextId |-> nextId]

EmptyLive == [k \in {} |-> [f \in FieldNames |-> 0]]

\* Model.save(): insert or overwrite the row with the object's key
Save(lv, key, rec) == [k \in DOMAIN lv \cup {key} |-> IF k = key THEN rec ELSE lv[k]]

\* Model.delete(): remove the row with the object's key
Delete(lv, key) == [k \in DOMAIN lv \ {key} |-> lv[k]]

\* serializers.serialize('json', [obj]): a one-element list holding the
\* model tag, the primary key and the field mapping
Serialize(key, rec) == <<[model |-> key[1], pk |-> key[2], fields |-> rec]>>

\* the (content type, object id) a change entry points at
EntryKey(e) == <<e.content_type, e.object_id>>

\* Changes.object: the generic foreign key resolves to the live record of
\* (content_type, object_id), or to None when there is none
HasObject(db, e) == EntryKey(e) \in DOMAIN db.live

EntryById(db, id) == CHOOSE c \in db.changes : c.id = id

\* ------------------------------------------------------------------ entries
\* create_changes(obj, using, comment, action): append one change entry for
\* the object, holding its serialized state
create_changes(db, key, rec, comment, action, rev) ==
    [db EXCEPT !.changes = @ \cup {[id |-> db.nextId,
                                    content_type |-> key[1],
                                    object_id |-> key[2],
                                    serialized_data |-> Serialize(key, rec),
                                    revision |-> rev,
                                    action |-> action,
                                    comment |-> comment]},
               !.nextId = @ + 1]

\* deserialize('json', data) accepts the blob: it is present, names a known
\* model and holds only fields of that model
Deserializable(data) ==
    /\ Len(data) = 1
    /\ data[1].model \in ContentTypes
    /\ DOMAIN data[1].fields \subseteq FieldNames

\* Changes.get_object: the transient object decoded from the snapshot; a
\* field the blob does not carry takes the field's default
get_object(e) ==
    LET d == e.serialized_data[1]
    IN [key |-> <<d.model, d.pk>>,
        rec |-> [f \in FieldNames |-> IF f \in DOMAIN d.fields THEN d.fields[f] ELSE 0]]

prev_changes_lte(db, e) ==
    LET older == {c \in db.changes : /\ c.content_type = e.content_type
                                     /\ c.object_id = e.object_id
                                     /\ c.id <= e.id}
    IN {c \in older : \A d \in older : d.id <= c.id}

\* Changes.prev_changes: the first entry, newest first, of the same content
\* type and object id with a smaller identifier; the empty set stands for None
prev_changes(db, e) ==
    LET older == {c \in db.changes : /\ c.content_type = e.content_type
                                     /\ c.object_id = e.object_id
                                     /\ c.id < e.id}
    IN {c \in older : \A d \in older : d.id <= c.id}

Result(db, e) == [db |-> db, err |-> e]

RevertAdded_DeleteAll(db, e, fail) ==
    IF ~HasObject(db, e) THEN Result(db, "AttributeError")
    ELSE Result([db EXCEPT !.live = EmptyLive], "ok")

RevertAdded_Logs(db, e, fail) ==
    IF ~HasObject(db, e) THEN Result(db, "AttributeError")
    ELSE Result(create_changes([db EXCEPT !.live = Delete(@, EntryKey(e))],
                               EntryKey(e), db.live[EntryKey(e)], "", "Deleted",
                               NoRevision), "ok")

\* revert, action 'Added': self.object.delete(); self.object is None when the
\* live record is gone, and None has no delete
RevertAdded(db, e, fail) ==
    IF ~HasObject(db, e) THEN Result(db, "AttributeError")
    ELSE Result([db EXCEPT !.live = Delete(@, EntryKey(e))], "ok")

RevertDeleted_NoEntry(db, e, fail) ==
    IF ~Deserializable(e.serialized_data) THEN Result(db, "DeserializationError")
    ELSE LET obj == get_object(e)
             saved == [db EXCEPT !.live = Save(@, obj.key, obj.rec)]
         IN IF fail = "log" THEN Result(saved, "DatabaseError")
            ELSE Result(saved, "ok")

RevertDeleted_Rewrite(db, e, fail) ==
    IF ~Deserializable(e.serialized_data) THEN Result(db, "DeserializationError")
    ELSE LET obj == get_object(e)
             saved == [db EXCEPT !.live = Save(@, obj.key, obj.rec)]
             logged == create_changes(saved, obj.key, obj.rec, "Recover object",
                                      "Added", NoRevision)
         IN IF fail = "log" THEN Result(saved, "DatabaseError")
            ELSE Result([logged EXCEPT !.changes = @ \ {e}], "ok")

\* revert, action 'Deleted': obj = self.get_object(); obj.save();
\* create_changes(obj, 'default', 'Recover object', action='Added')
RevertDeleted(db, e, fail) ==
    IF ~Deserializable(e.serialized_data) THEN Result(db, "DeserializationError")
    ELSE LET obj == get_object(e)
             saved == [db EXCEPT !.live = Save(@, obj.key, obj.rec)]
         IN IF fail = "log" THEN Result(saved, "DatabaseError")
            ELSE Result(create_changes(saved, obj.key, obj.rec, "Recover object",
                                       "Added", NoRevision), "ok")

\* revert, any other action: self.prev_changes.object.save(), where .object
\* is the generic foreign key of the preceding entry, that is the live
\* record; an AttributeError (prev_changes is None, or its object is None)
\* becomes NoPrevChangesError
RevertChanged(db, e, fail) ==
    LET prev == prev_changes(db, e)
    IN IF prev = {} THEN Result(db, "NoPrevChangesError")
       ELSE LET p == CHOOSE c \in prev : TRUE
            IN IF ~HasObject(db, p) THEN Result(db, "NoPrevChangesError")
               ELSE Result([db EXCEPT !.live = Save(@, EntryKey(p), db.live[EntryKey(p)])],
                           "ok")

\* the three branches of Changes.revert, keyed by the entry's action
RevertBody(db, e, fail) ==
    IF e.action = "Added" THEN RevertAdded(db, e, fail)
    ELSE IF e.action = "Deleted" THEN RevertDeleted(db, e, fail)
    ELSE RevertChanged(db, e, fail)

Atomic_NoRollback(db, res) == res

\* with transaction.atomic(): an exception leaving the block rolls back
\* everything the block wrote
Atomic(db, res) == IF res.err = "ok" THEN res ELSE Result(db, res.err)

\* Changes.revert
Changes_revert(db, e, fail) == Atomic(db, RevertBody(db, e, fail))

\* ------------------------------------------------------------------ revision
OrderAscending(ids) ==
    CHOOSE s \in [1..Cardinality(ids) -> ids] :
        \A i, j \in 1..Cardinality(ids) : i < j => s[i] < s[j]

\* Changes.Meta.ordering = ("-pk",): a queryset of Changes lists the entries
\* by identifier, descending
OrderByPkDesc(ids) ==
    CHOOSE s \in [1..Cardinality(ids) -> ids] :
        \A i, j \in 1..Cardinality(ids) : i < j => s[i] > s[j]

\* self.changes_set.all(): the entries whose revision is this one
changes_set(db, r) == OrderByPkDesc({c.id : c \in {d \in db.changes : d.revision = r}})

Remaining_Continue(pend, res) == Tail(pend)

\* for i in self.changes_set.all(): i.revert() -- an exception of i.revert()
\* leaves the loop; otherwise the loop goes on with the next entry
Remaining(pend, res) == IF res = "ok" THEN Tail(pend) ELSE <<>>

\* ------------------------------------------------------------------ actions
NoKey == <<0, 0>>

\* the relations declared towards the first tracked model
\* (model._meta.related_objects, in declaration order): a one-to-one and a
\* foreign key from the second model, and a foreign key of the model to itself
RelatedObjects == <<"o2o", "fk", "self">>

NoLinks == [r \in {"o2o", "fk", "self"} |-> {}]

NoResult == [rels |-> <<>>, ids |-> <<>>]

Call(name, arg, key) == [name |-> name, arg |-> arg, key |-> key]

\* a call outside Revision.revert: write the database and the outcome
Finish(db, name, arg, key, outcome) ==
    /\ live' = db.live
    /\ changes' = db.changes
    /\ nextId' = db.nextId
    /\ op' = Call(name, arg, key)
    /\ err' = outcome
    /\ pending' = <<>>
    /\ trace' = <<>>
    /\ startLive' = EmptyLive
    /\ startChanges' = {}
    /\ UNCHANGED <<patches, links, result>>

Idle == pending = <<>>

\* a tracked record is created; the hook records an 'Added' entry
AddRecord(key, rec, rev) ==
    /\ Idle
    /\ key \notin DOMAIN live
    /\ nextId <= MaxEntries
    /\ Finish(create_changes([DB EXCEPT !.live = Save(@, key, rec)],
                             key, rec, "", "Added", rev),
              "add", nextId, key, "ok")

\* a tracked record is saved again; the hook records a 'Changed' entry
ChangeRecord(key, rec, rev) ==
    /\ Idle
    /\ key \in DOMAIN live
    /\ nextId <= MaxEntries
    /\ Finish(create_changes([DB EXCEPT !.live = Save(@, key, rec)],
                             key, rec, "", "Changed", rev),
              "change", nextId, key, "ok")

\* a tracked record is deleted; the hook records a 'Deleted' entry holding
\* the record as it was
DeleteRecord(key, rev) ==
    /\ Idle
    /\ key \in DOMAIN live
    /\ nextId <= MaxEntries
    /\ Finish(create_changes([DB EXCEPT !.live = Delete(@, key)],
                             key, live[key], "", "Deleted", rev),
              "delete", nextId, key, "ok")

\* whether reverting the entry may append a change entry
Appends(e) == e.action = "Deleted"

\* Changes.revert() called on one entry
RevertEntry(e, fail) ==
    /\ Idle
    /\ e \in changes
    /\ Appends(e) => nextId <= MaxEntries
    /\ LET res == Changes_revert(DB, e, fail)
       IN Finish(res.db, "revert", e.id, EntryKey(e), res.err)

\* Revision.revert() is called: the queryset is evaluated once, when the
\* loop starts
RevisionRevertBegin(r) ==
    /\ Idle
    /\ nextId + Cardinality({c \in changes : c.revision = r /\ Appends(c)}) <= MaxEntries + 1
    /\ pending' = changes_set(DB, r)
    /\ trace' = <<>>
    /\ startLive' = live
    /\ startChanges' = changes
    /\ op' = Call("Revision.revert", r, NoKey)
    /\ err' = IF pending' = <<>> THEN "ok" ELSE "running"
    /\ UNCHANGED <<live, changes, nextId, patches, links, result>>

\* one iteration of the loop of Revision.revert: i.revert()
RevisionRevertStep(fail) ==
    /\ pending # <<>>
    /\ LET e == EntryById(DB, Head(pending))
           res == Changes_revert(DB, e, fail)
       IN /\ live' = res.db.live
          /\ changes' = res.db.changes
          /\ nextId' = res.db.nextId
          /\ trace' = Append(trace, [id |-> e.id, res |-> res.err])
          /\ pending' = Remaining(pending, res.err)
          /\ err' = IF res.err # "ok" THEN res.err
                    ELSE IF pending' = <<>> THEN "ok" ELSE "running"
    /\ UNCHANGED <<op, startLive, startChanges, patches, links, result>>

\* ------------------------------------------------------------------ spec
\* records that exist before any change was logged hold this state
InitRecord == [f \in FieldNames |-> 0]

Init ==
    /\ live \in {[k \in S |-> InitRecord] : S \in {{}, Keys}}
    /\ changes = {}
    /\ nextId = 1
    /\ op = Call("init", 0, NoKey)
    /\ err = "ok"
    /\ pending = <<>>
    /\ trace = <<>>
    /\ startLive = EmptyLive
    /\ startChanges = {}
    /\ patches = 0
    /\ links = NoLinks
    /\ result = NoResult

Next ==
    \/ \E key \in Keys, rec \in Records, rev \in Revisions \cup {NoRevision} :
           AddRecord(key, rec, rev)
    \/ \E key \in Keys, rec \in Records, rev \in Revisions \cup {NoRevision} :
           ChangeRecord(key, rec, rev)
    \/ \E key \in Keys, rev \in Revisions \cup {NoRevision} : DeleteRecord(key, rev)
    \/ \E e \in changes, fail \in DbFailures : RevertEntry(e, fail)
    \/ \E r \in Revisions : RevisionRevertBegin(r)
    \/ \E fail \in DbFailures : RevisionRevertStep(fail)

Spec == Init /\ [][Next]_vars

TypeOK ==
    /\ DOMAIN live \subseteq Keys
    /\ \A k \in DOMAIN live : live[k] \in Records
    /\ nextId \in 1..(MaxEntries + 1)
    /\ \A c \in changes : c.id \in 1..(nextId - 1)

\* ------------------------------------------------------------------ properties
\* the entries recorded for one (content type, object id)
History(ch, key) == {c \in ch : EntryKey(c) = key}

\* the entries of the same record with a smaller identifier
Older(c) == {d \in changes : EntryKey(d) = EntryKey(c) /\ d.id < c.id}

\* the snapshot is present, decodes, and carries the entry's own type and key
ValidSnapshot(c) ==
    /\ c.serialized_data # NullData
    /\ c.serialized_data[1].model = c.content_type
    /\ c.serialized_data[1].pk = c.object_id
    /\ DOMAIN c.serialized_data[1].fields = FieldNames

\* this step is Changes.revert of entry c, called directly or by the loop of
\* Revision.revert
RevertsEntry(c) ==
    \/ /\ pending = <<>>
       /\ op'.name = "revert"
       /\ op'.arg = c.id
    \/ /\ pending # <<>>
       /\ Head(pending) = c.id
       /\ trace' # trace

\* what that call of Changes.revert returned or raised
RevertOutcome == IF pending # <<>> THEN trace'[Len(trace')].res ELSE err'

\* the entry the last direct call of Changes.revert was applied to
LastReverted == CHOOSE c \in changes : c.id = op.arg

\* C1: reverting a 'Changed' entry that has a preceding entry of the same
\* record leaves the live record equal, field by field, to the decoded
\* snapshot of the immediately preceding entry.
C1_RestoresPredecessorSnapshot ==
    [][\A c \in changes :
          (RevertsEntry(c) /\ c.action = "Changed" /\ Older(c) # {}) =>
              LET p == CHOOSE d \in Older(c) : \A x \in Older(c) : x.id <= d.id
              IN /\ EntryKey(c) \in DOMAIN live'
                 /\ \A f \in FieldNames :
                        live'[EntryKey(c)][f] = p.serialized_data[1].fields[f]]_vars

\* C2: reverting a 'Changed' entry that is the oldest entry of its record
\* raises NoPrevChangesError and changes neither the live store nor the
\* Changes table.
C2_OldestChangedFails ==
    [][\A c \in changes :
          (RevertsEntry(c) /\ c.action = "Changed" /\ Older(c) = {}) =>
              /\ RevertOutcome = "NoPrevChangesError"
              /\ live' = live
              /\ changes' = changes]_vars

C2_Witness ==
    /\ op.name = "revert"
    /\ err = "NoPrevChangesError"
    /\ LastReverted.action = "Changed"
    /\ Older(LastReverted) = {}
    /\ EntryKey(LastReverted) \in DOMAIN live

\* C3: reverting a 'Deleted' entry with a valid snapshot recreates the live
\* record at the entry's key with the snapshot's field values and appends
\* exactly one entry, of kind 'Added' with comment 'Recover object', for that
\* record; no other record's history changes.  The only failure is one of
\* the persistence layer.
C3_DeletedRecreatesAndLogsOnce ==
    [][\A c \in changes :
          (RevertsEntry(c) /\ c.action = "Deleted" /\ ValidSnapshot(c)) =>
              /\ RevertOutcome \in {"ok", "DatabaseError"}
              /\ RevertOutcome = "ok" =>
                    LET k == EntryKey(c)
                    IN /\ k \in DOMAIN live'
                       /\ live'[k] = c.serialized_data[1].fields
                       /\ \E n \in changes' :
                             /\ n \notin changes
                             /\ changes' = changes \cup {n}
                             /\ n.action = "Added"
                             /\ n.comment = "Recover object"
                             /\ EntryKey(n) = k
                       /\ Cardinality(History(changes', k))
                             = Cardinality(History(changes, k)) + 1
                       /\ \A k2 \in Keys \ {k} :
                             History(changes', k2) = History(changes, k2)]_vars

C3_Witness ==
    /\ op.name = "revert"
    /\ err = "ok"
    /\ LastReverted.action = "Deleted"
    /\ ValidSnapshot(LastReverted)
    /\ EntryKey(LastReverted) \in DOMAIN live
    /\ live[EntryKey(LastReverted)] = LastReverted.serialized_data[1].fields
    /\ \E n \in changes : /\ n.id = nextId - 1
                          /\ n.comment = "Recover object"
                          /\ EntryKey(n) = EntryKey(LastReverted)
    /\ \E o \in changes : EntryKey(o) # EntryKey(LastReverted)

C5_AddedMissingRaisesNotFound ==
    [][\A c \in changes :
          (RevertsEntry(c) /\ c.action = "Added" /\ EntryKey(c) \notin DOMAIN live) =>
              /\ RevertOutcome = "DoesNotExist"
              /\ live' = live
              /\ changes' = changes]_vars

\* C6: a call of Changes.revert that fails commits none of its effects; in
\* particular a 'Deleted' entry's record is not left recreated when the
\* 'Recover object' entry could not be written.
C6_FailedRevertCommitsNothing ==
    [][\A c \in changes :
          (RevertsEntry(c) /\ RevertOutcome # "ok") =>
              /\ live' = live
              /\ changes' = changes]_vars

C6_Witness ==
    /\ op.name = "revert"
    /\ err = "DatabaseError"
    /\ LastReverted.action = "Deleted"
    /\ EntryKey(LastReverted) \notin DOMAIN live

\* the identifiers Revision.revert has applied Changes.revert to, in order
Visited == {trace[i].id : i \in 1..Len(trace)}

\* the entries that referenced the revision when Revision.revert was called
Owned == {c.id : c \in {d \in startChanges : d.revision = op.arg}}

\* Revision.revert has returned or raised
RevisionDone == op.name = "Revision.revert" /\ pending = <<>>

\* C7: Revision.revert applies Changes.revert to the entries of this
\* revision only, each at most once and newest first without skipping one,
\* and to every one of them when no revert fails.
C7_RevisionVisitsOwnEntriesNewestFirst ==
    op.name = "Revision.revert" =>
        /\ Visited \subseteq Owned
        /\ \A i, j \in 1..Len(trace) : i < j => trace[i].id > trace[j].id
        /\ \A id \in Owned : \A i \in 1..Len(trace) :
               id > trace[i].id => \E j \in 1..(i - 1) : trace[j].id = id
        /\ (pending = <<>> /\ err = "ok") => Visited = Owned

C7_Witness ==
    /\ RevisionDone
    /\ err = "ok"
    /\ Len(trace) >= 2
    /\ trace[1].id > trace[2].id
    /\ \E c \in startChanges : c.revision # op.arg

\* C8: when the revert of an entry fails inside Revision.revert, the call
\* ends with that failure and no further entry is reverted.
C8_RevisionStopsAtFirstFailure ==
    op.name = "Revision.revert" =>
        \A i \in 1..Len(trace) :
            trace[i].res # "ok" =>
                /\ i = Len(trace)
                /\ pending = <<>>
                /\ err = trace[i].res

C8_Witness ==
    /\ RevisionDone
    /\ Len(trace) >= 1
    /\ trace[Len(trace)].res # "ok"
    /\ \E id \in Owned : id < trace[Len(trace)].id /\ id \notin Visited

\* C9: a Revision.revert that fails on some entry leaves the live store and
\* the Changes table as they were when it was called.
C9_FailedRevisionRevertCommitsNothing ==
    (RevisionDone /\ err # "ok") =>
        /\ live = startLive
        /\ changes = startChanges

\* C9, amended: only the failing entry's own revert is undone; the loop of
\* Revision.revert leaves what the earlier entries' reverts committed.
C9_FailedEntryOfRevisionCommitsNothing ==
    [][(pending # <<>> /\ trace' # trace /\ trace'[Len(trace')].res # "ok") =>
          /\ live' = live
          /\ changes' = changes
          /\ \A i \in 1..Len(trace) : trace'[i].res = "ok"]_vars

C9_Witness ==
    /\ RevisionDone
    /\ err \notin {"ok", "running"}
    /\ Len(trace) >= 2
    /\ live # startLive \/ changes # startChanges

\* C10: record changes and reverts never delete or alter a change entry;
\* every entry they add carries a new identifier.
C10_HistoryOnlyGrows ==
    [][op'.name \in {"add", "change", "delete", "revert", "Revision.revert"} =>
          /\ changes \subseteq changes'
          /\ \A n \in changes' \ changes : \A c \in changes : n.id > c.id]_vars

C10_Witness ==
    /\ RevisionDone
    /\ err = "ok"
    /\ startChanges # {}
    /\ startChanges \subseteq changes
    /\ changes # startChanges
    /\ \E c \in startChanges : c.action = "Deleted" /\ EntryKey(c) \in DOMAIN live

\* C18: Changes.revert raises NoPrevChangesError only for a 'Changed' entry
\* without a preceding entry of the same record.
C18_NoPrevOnlyWithoutPredecessor ==
    [][\A c \in changes :
          (RevertsEntry(c) /\ RevertOutcome = "NoPrevChangesError") =>
              /\ c.action = "Changed"
              /\ Older(c) = {}]_vars

\* the live store and the Changes table after reverting entry c and then
\* reverting the one entry that revert appended
RecoveredThenReverted(c) ==
    LET first == Changes_revert(DB, c, "none")
        new == first.db.changes \ changes
    IN /\ first.err = "ok"
       /\ Cardinality(new) = 1
       /\ \A n \in new :
             /\ n.action = "Added"
             /\ n.comment = "Recover object"
             /\ LET second == Changes_revert(first.db, n, "none")
                IN /\ second.err = "ok"
                   /\ second.db.live = live
                   /\ second.db.changes = changes \cup {n}

\* C19: reverting a 'Deleted' entry and then the 'Recover object' entry this
\* appended returns the live store to what it was before the first revert,
\* and the history has grown by that one entry only.
C19_RecoverThenRevertRestoresStore ==
    \A c \in changes :
        (c.action = "Deleted" /\ ValidSnapshot(c)) => RecoveredThenReverted(c)

\* C19, for a record that is absent before the first revert.
C19_RecoverThenRevertOfAbsentRecord ==
    \A c \in changes :
        (c.action = "Deleted" /\ ValidSnapshot(c) /\ EntryKey(c) \notin DOMAIN live) =>
            RecoveredThenReverted(c)

C19_Witness ==
    /\ op.name = "revert"
    /\ err = "ok"
    /\ LastReverted.action = "Added"
    /\ LastReverted.comment = "Recover object"
    /\ EntryKey(LastReverted) \notin DOMAIN live
    /\ \E c \in changes : /\ c.action = "Deleted"
                          /\ EntryKey(c) = EntryKey(LastReverted)
                          /\ c.id < LastReverted.id
    /\ Cardinality(History(changes, EntryKey(LastReverted))) = 2

\* ------------------------------------------------------------------ revision deletion
\* Revision.delete(): Changes.revision is declared without on_delete, which
\* for the Django versions this module imports from means CASCADE, so the
\* entries that reference the revision are deleted with it
Revision_delete(db, r) == [db EXCEPT !.changes = {c \in @ : c.revision # r}]

\* a Revision is deleted
DeleteRevision(r) ==
    /\ Idle
    /\ \E c \in changes : c.revision = r
    /\ Finish(Revision_delete(DB, r), "Revision.delete", r, NoKey, "ok")

NextRevision ==
    \/ Next
    \/ \E r \in Revisions : DeleteRevision(r)

SpecRevision == Init /\ [][NextRevision]_vars

\* C11: deleting a Revision deletes no change entry; the entries that
\* referenced it stay, with only their revision reference cleared.
C11_EntriesOutliveRevision ==
    [][op'.name = "Revision.delete" =>
          \A c \in changes :
              \E d \in changes' :
                  /\ d.id = c.id
                  /\ d = IF c.revision = op'.arg
                         THEN [c EXCEPT !.revision = NoRevision]
                         ELSE c]_vars

\* ------------------------------------------------------------------ patches
\* attribute names passed to set_attr / del_attr: the keys of the snapshot
\* record, the fields of the model, and a name that is no field
AttrNames == {"pk", "model", "a", "zz"}

\* text that json.loads rejects: two documents back to back ("Extra data")
Unparseable ==
    Serialize(<<1, 1>>, [f \in FieldNames |-> 0]) \o Serialize(<<1, 1>>, [f \in FieldNames |-> 0])

\* json.loads(text) returns a value: the text holds exactly one document
Parses(text) == Len(text) = 1

\* self.save() of a change entry whose serialized_data was replaced
SaveEntry(db, e, data) ==
    [db EXCEPT !.changes = (@ \ {e}) \cup {[e EXCEPT !.serialized_data = <<data>>]}]

set_attr_ClobbersPk(db, e, attr, value) ==
    IF e.serialized_data = NullData THEN Result(db, "TypeError")
    ELSE IF ~Parses(e.serialized_data) THEN Result(db, "ValueError")
    ELSE LET data == e.serialized_data[1]
             patched ==
                 IF attr \in DOMAIN data THEN [data EXCEPT ![attr] = value]
                 ELSE [data EXCEPT !.pk = value,
                                   !.fields = [k \in DOMAIN @ \cup {attr} |->
                                                  IF k = attr THEN value ELSE @[k]]]
         IN Result(SaveEntry(db, e, patched), "ok")

set_attr_NullAsEmpty(db, e, attr, value) ==
    IF e.serialized_data = NullData
    THEN Result(SaveEntry(db, e, [model |-> e.content_type, pk |-> e.object_id,
                                  fields |-> [k \in {attr} |-> value]]), "ok")
    ELSE IF ~Parses(e.serialized_data) THEN Result(db, "ValueError")
    ELSE LET data == e.serialized_data[1]
             patched ==
                 IF attr \in DOMAIN data THEN [data EXCEPT ![attr] = value]
                 ELSE [data EXCEPT !.fields = [k \in DOMAIN @ \cup {attr} |->
                                                  IF k = attr THEN value ELSE @[k]]]
         IN Result(SaveEntry(db, e, patched), "ok")

\* Changes.set_attr: data = json.loads(self.serialized_data)[0]; a name that
\* is a key of data is overwritten there, any other name is written into
\* data['fields']; json.loads raises TypeError on None and ValueError on text
\* that is no JSON document, before anything is saved
set_attr(db, e, attr, value) ==
    IF e.serialized_data = NullData THEN Result(db, "TypeError")
    ELSE IF ~Parses(e.serialized_data) THEN Result(db, "ValueError")
    ELSE LET data == e.serialized_data[1]
             patched ==
                 IF attr \in DOMAIN data THEN [data EXCEPT ![attr] = value]
                 ELSE [data EXCEPT !.fields = [k \in DOMAIN @ \cup {attr} |->
                                                  IF k = attr THEN value ELSE @[k]]]
         IN Result(SaveEntry(db, e, patched), "ok")

del_attr_Keeps(db, e, attr) ==
    IF e.serialized_data = NullData THEN Result(db, "TypeError")
    ELSE IF ~Parses(e.serialized_data) THEN Result(db, "ValueError")
    ELSE Result(SaveEntry(db, e, e.serialized_data[1]), "ok")

\* Changes.del_attr: data['fields'].pop(attr, None), then save
del_attr(db, e, attr) ==
    IF e.serialized_data = NullData THEN Result(db, "TypeError")
    ELSE IF ~Parses(e.serialized_data) THEN Result(db, "ValueError")
    ELSE LET data == e.serialized_data[1]
             patched == [data EXCEPT !.fields = [k \in DOMAIN @ \ {attr} |-> @[k]]]
         IN Result(SaveEntry(db, e, patched), "ok")

PatchCall(name, e, attr, value) ==
    [name |-> name, arg |-> e.id, key |-> EntryKey(e), attr |-> attr, value |-> value]

\* a call of set_attr or del_attr: write the database and the outcome
FinishPatch(res, call) ==
    /\ live' = res.db.live
    /\ changes' = res.db.changes
    /\ nextId' = res.db.nextId
    /\ op' = call
    /\ err' = res.err
    /\ patches' = patches + 1
    /\ UNCHANGED <<pending, trace, startLive, startChanges, links, result>>

\* Changes.set_attr(attr, value) called on one entry
SetAttr(e, attr, value) ==
    /\ Idle
    /\ patches < MaxPatches
    /\ FinishPatch(set_attr(DB, e, attr, value), PatchCall("set_attr", e, attr, value))

\* Changes.del_attr(attr) called on one entry
DelAttr(e, attr) ==
    /\ Idle
    /\ patches < MaxPatches
    /\ FinishPatch(del_attr(DB, e, attr), PatchCall("del_attr", e, attr, 0))

\* an entry stored without a snapshot (serialized_data is nullable)
BareEntry ==
    [id |-> 1, content_type |-> 1, object_id |-> 1, serialized_data |-> NullData,
     revision |-> NoRevision, action |-> "Changed", comment |-> ""]

\* the entries the history may hold before the first operation: none, one
\* without a snapshot, one whose snapshot text is no JSON document
Seeds == {{}, {BareEntry}, {[BareEntry EXCEPT !.serialized_data = Unparseable]}}

InitPatch ==
    /\ live \in {[k \in S |-> InitRecord] : S \in {{}, Keys}}
    /\ changes \in Seeds
    /\ nextId = Cardinality(changes) + 1
    /\ op = Call("init", 0, NoKey)
    /\ err = "ok"
    /\ pending = <<>>
    /\ trace = <<>>
    /\ startLive = EmptyLive
    /\ startChanges = {}
    /\ patches = 0
    /\ links = NoLinks
    /\ result = NoResult

\* the history stays short where snapshots are patched
Short == nextId <= MaxPatchEntries

NextPatch ==
    \/ \E key \in Keys, rec \in Records : Short /\ AddRecord(key, rec, NoRevision)
    \/ \E key \in Keys, rec \in Records : Short /\ ChangeRecord(key, rec, NoRevision)
    \/ \E key \in Keys : Short /\ DeleteRecord(key, NoRevision)
    \/ \E e \in changes, fail \in DbFailures :
           (Appends(e) => Short) /\ RevertEntry(e, fail)
    \/ \E e \in changes, attr \in AttrNames, value \in Values : SetAttr(e, attr, value)
    \/ \E e \in changes, attr \in AttrNames : DelAttr(e, attr)

SpecPatch == InitPatch /\ [][NextPatch]_vars

\* this step is set_attr or del_attr (by name) called on entry c
Patches(name, c) ==
    /\ patches' = patches + 1
    /\ op'.name = name
    /\ op'.arg = c.id

\* the entry with c's identifier after the step
After(c) == CHOOSE d \in changes' : d.id = c.id

\* C13: set_attr(name, value) on an entry whose snapshot has `name` in the
\* nested field mapping sets that field to value and changes nothing else:
\* the other nested fields and the top-level model tag and primary key stay.
C13_SetAttrChangesOnlyThatField ==
    [][\A c \in changes :
          (/\ Patches("set_attr", c)
           /\ Parses(c.serialized_data)
           /\ op'.attr \in DOMAIN c.serialized_data[1].fields) =>
              LET old == c.serialized_data[1]
                  new == After(c).serialized_data[1]
              IN /\ err' = "ok"
                 /\ DOMAIN new.fields = DOMAIN old.fields
                 /\ new.fields[op'.attr] = op'.value
                 /\ \A k \in DOMAIN old.fields \ {op'.attr} : new.fields[k] = old.fields[k]
                 /\ new.model = old.model
                 /\ new.pk = old.pk]_vars

\* what del_attr leaves alone in every case: the top-level keys and the
\* nested fields other than the one named
DelAttrFrame(old, new, attr) ==
    /\ new.model = old.model
    /\ new.pk = old.pk
    /\ DOMAIN new.fields = DOMAIN old.fields \ {attr}
    /\ \A k \in DOMAIN new.fields : new.fields[k] = old.fields[k]

\* C14: del_attr(name) leaves the snapshot as it is when name is a top-level
\* key or is absent from the nested mapping, and in every case leaves the
\* top-level keys and the other nested fields unchanged.
C14_DelAttrNoOpOnTopLevelOrAbsent ==
    [][\A c \in changes :
          (Patches("del_attr", c) /\ Parses(c.serialized_data)) =>
              LET old == c.serialized_data[1]
                  new == After(c).serialized_data[1]
              IN /\ (op'.attr \in DOMAIN old \/ op'.attr \notin DOMAIN old.fields)
                        => new = old
                 /\ DelAttrFrame(old, new, op'.attr)]_vars

\* C14, amended: the snapshot stays as it is when name is absent from the
\* nested mapping; a name that is both a top-level key and a nested field is
\* removed from the nested mapping.
C14_DelAttrNoOpWhenAbsent ==
    [][\A c \in changes :
          (Patches("del_attr", c) /\ Parses(c.serialized_data)) =>
              LET old == c.serialized_data[1]
                  new == After(c).serialized_data[1]
              IN /\ op'.attr \notin DOMAIN old.fields => new = old
                 /\ DelAttrFrame(old, new, op'.attr)]_vars

C14_Witness ==
    /\ op.name = "del_attr"
    /\ err = "ok"
    /\ op.attr = "model"
    /\ Parses(LastReverted.serialized_data)
    /\ DOMAIN LastReverted.serialized_data[1].fields = {"a"}
    /\ LastReverted.serialized_data[1].model = LastReverted.content_type

\* C15: set_attr and del_attr on an entry whose snapshot is absent or is not
\* a valid (decodable) snapshot fail and leave the stored entry unchanged.
C15_PatchOfInvalidSnapshotFails ==
    [][\A c \in changes :
          (/\ Patches("set_attr", c) \/ Patches("del_attr", c)
           /\ ~Deserializable(c.serialized_data)) =>
              /\ err' # "ok"
              /\ changes' = changes]_vars

\* C15, amended: they fail and leave the entry unchanged when the snapshot
\* is absent or its text is no JSON document; a document that parses is
\* rewritten whether or not it still decodes to a record.
C15_PatchOfAbsentSnapshotFails ==
    [][\A c \in changes :
          (/\ Patches("set_attr", c) \/ Patches("del_attr", c)
           /\ ~Parses(c.serialized_data)) =>
              /\ err' = IF c.serialized_data = NullData THEN "TypeError" ELSE "ValueError"
              /\ changes' = changes
              /\ live' = live]_vars

C15_Witness ==
    /\ op.name \in {"set_attr", "del_attr"}
    /\ err = "ValueError"
    /\ LastReverted.serialized_data = Unparseable
    /\ patches = MaxPatches

\* every stored snapshot carries the type and key of its entry
Consistent(ch) ==
    \A c \in ch :
        Parses(c.serialized_data) =>
            /\ c.serialized_data[1].model = c.content_type
            /\ c.serialized_data[1].pk = c.object_id

\* C17: in every reachable state every change entry with a snapshot has a
\* snapshot whose type tag and primary key are the entry's own.
C17_SnapshotMatchesEntry == Consistent(changes)

\* C17, amended: every operation other than set_attr on a top-level key of
\* the snapshot keeps the snapshots matching their entries.
C17_MatchKeptExceptByTopLevelSetAttr ==
    [][(/\ Consistent(changes)
        /\ ~(/\ op'.name = "set_attr"
             /\ patches' = patches + 1
             /\ op'.attr \in {"model", "pk"})) => Consistent(changes')]_vars

C17_Witness ==
    /\ op.name = "revert"
    /\ err = "ok"
    /\ patches >= 1
    /\ LastReverted.action = "Deleted"
    /\ DOMAIN LastReverted.serialized_data[1].fields # FieldNames
    /\ Consistent(changes)
    /\ nextId = 3

\* ------------------------------------------------------------------ queries
\* rel_model.related_model: the model that declares the relation field
RelatedModel(rel) == IF rel = "self" THEN 1 ELSE 2

\* type(rel_model.field) == models.OneToOneField
IsOneToOne(rel) == rel = "o2o"

\* the model every relation points to
ParentModel == 1

\* getattr(obj, rel_model.get_accessor_name()): the primary keys of the live
\* records of the related model whose relation field holds obj_id
Accessor(db, lk, rel, obj_id) ==
    {l[1] : l \in {x \in lk[rel] : /\ x[2] = obj_id
                                   /\ <<RelatedModel(rel), x[1]>> \in DOMAIN db.live}}

\* history_objects.update({key: values}) replaces the list stored under key
Update(history_objects, key, values) ==
    [k \in DOMAIN history_objects \cup {key} |->
        IF k = key THEN values ELSE history_objects[k]]

\* the loop over related_objects: a one-to-one accessor without a related
\* record raises DoesNotExist and the relation is skipped; any other relation
\* stores the list of related primary keys under the related content type
RECURSIVE Collect(_, _, _, _, _)
Collect(db, lk, obj_id, related, history_objects) ==
    IF related = <<>> THEN history_objects
    ELSE LET rel_model == Head(related)
             values == Accessor(db, lk, rel_model, obj_id)
         IN IF IsOneToOne(rel_model) /\ values = {}
            THEN Collect(db, lk, obj_id, Tail(related), history_objects)
            ELSE Collect(db, lk, obj_id, Tail(related),
                         Update(history_objects, RelatedModel(rel_model), values))

\* Changes.objects.filter(qobj): the entries matching one of the collected
\* (content type, primary keys) pairs, in the default ordering
Filter(db, history_objects) ==
    OrderByPkDesc({c.id : c \in {d \in db.changes :
                                    /\ d.content_type \in DOMAIN history_objects
                                    /\ d.object_id \in history_objects[d.content_type]}})

get_changes_by_obj_NoGet(db, lk, model, obj_id, related) ==
    [err |-> "ok",
     ids |-> Filter(db, Collect(db, lk, obj_id, related, [k \in {model} |-> {obj_id}]))]

\* Changes.get_changes_by_obj: model.objects.get(pk=obj_id) raises
\* DoesNotExist when the root record is not live
get_changes_by_obj(db, lk, model, obj_id, related) ==
    IF <<model, obj_id>> \notin DOMAIN db.live
    THEN [err |-> "DoesNotExist", ids |-> <<>>]
    ELSE [err |-> "ok",
          ids |-> Filter(db, Collect(db, lk, obj_id, related,
                                     [k \in {model} |-> {obj_id}]))]

\* model._meta.related_objects
related_objects(model) == IF model = ParentModel THEN RelatedObjects ELSE <<>>

\* the values of the related_objects argument: the relations of the model,
\* any of them, in any order ('__all__' is all of them in declared order)
RelatedChoices(model) ==
    LET rels == {related_objects(model)[i] : i \in DOMAIN related_objects(model)}
    IN {s \in UNION {[1..n -> rels] : n \in 0..Cardinality(rels)} :
           \A i, j \in DOMAIN s : i # j => s[i] # s[j]}

\* Changes.get_changes_by_obj(model, obj_id, related) is called; it reads only
Query(model, obj_id, related) ==
    /\ Idle
    /\ LET res == get_changes_by_obj(DB, links, model, obj_id, related)
       IN /\ op' = Call("get_changes_by_obj", obj_id, <<model, obj_id>>)
          /\ err' = res.err
          /\ result' = [rels |-> related, ids |-> res.ids]
    /\ UNCHANGED <<live, changes, nextId, pending, trace, startLive, startChanges,
                   patches, links>>

\* the relation field of a live record of the related model is pointed at a
\* live record of the parent model; a one-to-one field is unique
Relate(rel, child, parent) ==
    /\ Idle
    /\ <<RelatedModel(rel), child>> \in DOMAIN live
    /\ <<ParentModel, parent>> \in DOMAIN live
    /\ IsOneToOne(rel) => \A l \in links[rel] : l[2] = parent => l[1] = child
    /\ links' = [links EXCEPT ![rel] = {l \in @ : l[1] # child} \cup {<<child, parent>>}]
    /\ op' = Call("relate", child, <<RelatedModel(rel), child>>)
    /\ err' = "ok"
    /\ UNCHANGED <<live, changes, nextId, pending, trace, startLive, startChanges,
                   patches, result>>

NextQuery ==
    \/ \E key \in Keys : AddRecord(key, InitRecord, NoRevision)
    \/ \E key \in Keys : ChangeRecord(key, InitRecord, NoRevision)
    \/ \E key \in Keys : DeleteRecord(key, NoRevision)
    \/ \E e \in changes : RevertEntry(e, "none")
    \/ \E rel \in {"o2o", "fk", "self"}, child, parent \in PKs : Relate(rel, child, parent)
    \/ \E model \in ContentTypes, obj_id \in PKs :
           \E related \in RelatedChoices(model) : Query(model, obj_id, related)

SpecQuery == Init /\ [][NextQuery]_vars

\* this step is a call of get_changes_by_obj
Queries == op'.name = "get_changes_by_obj"

\* the identifiers listed by the last query
Listed == {result.ids[i] : i \in DOMAIN result.ids}

\* C12: a query that succeeds returns exactly the entries of the root record
\* and of every record related to it through each traversed relation, also
\* when relations, or a relation and the root, share a content type; a
\* missing one-to-one related record contributes nothing.
C12_ReturnsUnionOfRootAndRelated ==
    [][(Queries /\ err' = "ok") =>
          {result'.ids[i] : i \in DOMAIN result'.ids} =
              {c.id : c \in {d \in changes :
                  \/ EntryKey(d) = op'.key
                  \/ \E i \in DOMAIN result'.rels :
                        /\ d.content_type = RelatedModel(result'.rels[i])
                        /\ d.object_id \in Accessor(DB, links, result'.rels[i],
                                                    op'.arg)}}]_vars

\* C16: the sequence a history query returns never places an entry before an
\* entry with a higher identifier, whatever the content types of the entries.
C16_ResultsNewestFirst ==
    \A i, j \in DOMAIN result.ids : i < j => result.ids[i] > result.ids[j]

C16_Witness ==
    /\ op.name = "get_changes_by_obj"
    /\ err = "ok"
    /\ Len(result.ids) = MaxEntries
    /\ \E c, d \in changes : /\ {c.id, d.id} \subseteq Listed
                             /\ c.id < d.id
                             /\ c.content_type > d.content_type

\* C20: a query whose root record is not live fails with DoesNotExist, returns
\* no entry although the record's entries survive, and modifies nothing.
C20_MissingRootRaisesNotFound ==
    [][(Queries /\ op'.key \notin DOMAIN live) =>
          /\ err' = "DoesNotExist"
          /\ result'.ids = <<>>
          /\ live' = live
          /\ changes' = changes
          /\ nextId' = nextId
          /\ links' = links]_vars

C20_Witness ==
    /\ op.name = "get_changes_by_obj"
    /\ err = "DoesNotExist"
    /\ op.key \notin DOMAIN live
    /\ \E c, d \in changes : /\ EntryKey(c) = op.key
                             /\ EntryKey(d) = op.key
                             /\ c.action = "Deleted"
                             /\ d.action = "Added"
                             /\ d.id > c.id

====
